---- MODULE Spec2Model ----
(***************************************************************************)
(* Model of src/app.py of SkinToneAnalyzer: the image normalizer           *)
(* (_preprocess_to_jpeg_bytes), the memoized classification requester      *)
(* (suggest_skin_tone under st.cache_data) and the Streamlit button        *)
(* handler that renders its result.                                        *)
(***************************************************************************)
EXTENDS Integers, Sequences, FiniteSets, TLC

(***************************************************************************)
(* Bounds of the model.                                                    *)
(***************************************************************************)
\* widths and heights explored by the normalizer specification
MaxDim == 24
\* max_side values explored by the normalizer specification
MaxSideBound == 16
\* network calls issued in one behaviour of the application specification
MaxNet == 2

(***************************************************************************)
(* Program constants.                                                      *)
(***************************************************************************)
SKIN_TONES ==
    <<"FAIR", "LIGHT", "LIGHT_MEDIUM", "MEDIUM", "MEDIUM_TAN", "TAN", "DARK", "DEEP">>

\* default of the max_side parameter
DefaultMaxSide == 1024

\* number of explicit significand bits of a Python float (IEEE-754 binary64)
MantissaBits == 52

(***************************************************************************)
(* Arithmetic helpers.                                                     *)
(***************************************************************************)
Max(a, b) == IF a >= b THEN a ELSE b

RECURSIVE Pow2(_)
Pow2(n) == IF n = 0 THEN 1 ELSE 2 * Pow2(n - 1)

\* floor(log2 k) for k >= 1
RECURSIVE Log2Floor(_)
Log2Floor(k) == IF k < 2 THEN 0 ELSE 1 + Log2Floor(k \div 2)

\* (m * 2^s) mod q, by repeated doubling
RECURSIVE ShiftMod(_, _, _)
ShiftMod(m, s, q) == IF s = 0 THEN m % q ELSE (2 * ShiftMod(m, s - 1, q)) % q

\* least j >= 1 with m * 2^j >= L, for 1 <= m < L: the float m / L lies in
\* [2^-j, 2^(1-j))
RECURSIVE BinExp(_, _)
BinExp(m, L) == IF 2 * m >= L THEN 1 ELSE 1 + BinExp(2 * m, L)

(***************************************************************************)
(* int(d * (m / L)) in binary64 arithmetic, for 1 <= m < L and 1 <= d <= L.*)
(* The quotient m / L is rounded to 53 significant bits; the product       *)
(* d * fl(m / L) is rounded again; int() truncates.  The exact product     *)
(* d*m/L has denominator L, so a non-integer product is at least 1/L away  *)
(* from every integer and the two roundings cannot move it across one.     *)
(* When d*m/L is an integer k the quotient's rounding error decides: with  *)
(* s = 52 + j and rem = (m * 2^s) mod L, the quotient was rounded down by  *)
(* rem / (L * 2^s), the product falls short of k by d times that, and it   *)
(* rounds to the float below k when the shortfall exceeds half the float   *)
(* spacing below k (ties go to k, whose significand is even).              *)
(***************************************************************************)
FloatMulTrunc(d, m, L) ==
    IF (d * m) % L # 0 THEN (d * m) \div L
    ELSE LET k    == (d * m) \div L
             j    == BinExp(m, L)
             s    == MantissaBits + j
             rem  == ShiftMod(m, s, L)
             odd  == ShiftMod(m, s, 2 * L) >= L
             down == (2 * rem < L) \/ (2 * rem = L /\ ~odd)
             f    == Log2Floor(k)
             half == IF k = Pow2(f) THEN 4 ELSE 2
         IN  IF rem # 0 /\ down /\ half * d * rem > L * Pow2(f + j)
             THEN k - 1 ELSE k

(***************************************************************************)
(* _preprocess_to_jpeg_bytes: the size computation.                        *)
(***************************************************************************)
\* scale = min(max_side / w, max_side / h, 1.0); scale < 1.0
\* (a float quotient a / b of positive integers is below 1.0 exactly when a < b)
NeedsResize(w, h, max_side) == max_side < w \/ max_side < h

\* ScaledDim as it would be with round() in place of int()
ScaledDimRounded(d, w, h, max_side) ==
    (2 * d * max_side + Max(w, h)) \div (2 * Max(w, h))

\* int(d * scale) when scale < 1.0: the smaller quotient is max_side / max(w, h)
ScaledDim(d, w, h, max_side) == FloatMulTrunc(d, max_side, Max(w, h))

\* TargetSize as it would be without the 1.0 in min(...): small images are scaled too
TargetSizeNoCap(w, h, max_side) ==
    << (w * max_side) \div Max(w, h), (h * max_side) \div Max(w, h) >>

\* the size of the image handed to img.save
TargetSize(w, h, max_side) ==
    IF NeedsResize(w, h, max_side)
    THEN << ScaledDim(w, w, h, max_side), ScaledDim(h, w, h, max_side) >>
    ELSE << w, h >>

(***************************************************************************)
(* Input values.  A byte string is named by what it holds; NoneValue is    *)
(* Python's None and EmptyValue the empty bytes or string.                 *)
(***************************************************************************)
NoneValue == "None"
EmptyValue == ""

\* uploads tried as the selfie: not an image, a 4000x3000 photo, a 2048x1 strip
Selfies == {"junk", "photo", "strip"}
\* the reference argument: None, an empty upload, not an image, a 300x200 image
Refs == {NoneValue, EmptyValue, "junk", "swatches"}
\* st.secrets.get("OPENAI_API_KEY") and os.environ.get("OPENAI_API_KEY")
SecretValues == {NoneValue, "sk-secret"}
EnvValues == {EmptyValue, "sk-env"}

Keys == Selfies \X Refs

\* Python truth of an Optional[bytes] or Optional[str]
Truthy(x) == x # NoneValue /\ x # EmptyValue

(***************************************************************************)
(* JSON values a response can hold, and the service's responses.           *)
(***************************************************************************)
Num(v) == [t |-> "number", v |-> v]
NotNum == [t |-> "string", v |-> 0]
NoField == [t |-> "absent", v |-> 0]
Absent == "<absent>"

\* confidence is counted in hundredths: 82 is 0.82
JsonObject(tone, conf, rest) ==
    [type |-> "object", skin_tone |-> tone, confidence |-> conf, rest |-> rest]
JsonArray == [type |-> "array", skin_tone |-> Absent, confidence |-> NoField, rest |-> "none"]
JsonNull == [type |-> "null", skin_tone |-> Absent, confidence |-> NoField, rest |-> "none"]

JsonValues ==
    { JsonObject("TAN", Num(82), "ok"),           \* conforming
      JsonObject("unknown", Num(30), "ok"),       \* conforming, needs_better_photo
      JsonObject(Absent, Num(50), "ok"),          \* skin_tone missing
      JsonObject("PURPLE", Num(150), "ok"),       \* outside the enum and the range
      JsonObject("FAIR", NotNum, "ok"),           \* confidence is a string
      JsonArray }                                 \* not an object

\* resp.output_text: valid says whether the text is JSON at all
OutputTexts ==
    { [valid |-> TRUE, value |-> v] : v \in JsonValues }
        \cup { [valid |-> FALSE, value |-> JsonNull] }

NoText == [valid |-> FALSE, value |-> JsonNull]
\* client.responses.create returns a response or raises
Responses ==
    { [status |-> "ok", output_text |-> t] : t \in OutputTexts }
        \cup { [status |-> "error", output_text |-> NoText] }
NoResponse == [status |-> "none", output_text |-> NoText]

(***************************************************************************)
(* The JSON schema sent with the request.                                  *)
(***************************************************************************)
Range(seq) == { seq[i] : i \in 1..Len(seq) }

SchemaEnum == Range(SKIN_TONES) \cup {"unknown"}

SchemaValid(v) ==
    /\ v.type = "object"
    /\ v.skin_tone \in SchemaEnum
    /\ v.confidence.t = "number"
    /\ v.confidence.v >= 0 /\ v.confidence.v <= 100
    /\ v.rest = "ok"

(***************************************************************************)
(* _get_openai_client.                                                     *)
(***************************************************************************)
\* api_key = st.secrets.get(...); api_key = api_key or os.environ.get(...)
GetApiKey(secrets, env) == IF Truthy(secrets) THEN secrets ELSE env

\* ClientOk as it would be without the "if not api_key" check
ClientOkUnchecked(secrets, env) == TRUE

\* FALSE when _get_openai_client raises RuntimeError
ClientOk(secrets, env) == Truthy(GetApiKey(secrets, env))

(***************************************************************************)
(* _preprocess_to_jpeg_bytes and _to_data_url.                             *)
(***************************************************************************)
NoImage == [src |-> NoneValue, w |-> 0, h |-> 0]

\* Image.open(...).convert("RGB") and img.size
ImageOpen(bytes) ==
    CASE bytes = "photo"    -> [ok |-> TRUE, w |-> 4000, h |-> 3000]
      [] bytes = "strip"    -> [ok |-> TRUE, w |-> 2048, h |-> 1]
      [] bytes = "swatches" -> [ok |-> TRUE, w |-> 300, h |-> 200]
      [] OTHER              -> [ok |-> FALSE, w |-> 0, h |-> 0]

\* the JPEG produced, or the exception raised: Image.open rejects bytes that
\* are no image, img.resize rejects a size with a zero side
Preprocess(bytes, max_side) ==
    LET img  == ImageOpen(bytes)
        size == TargetSize(img.w, img.h, max_side)
    IN  IF ~img.ok
        THEN [ok |-> FALSE, exc |-> "UnidentifiedImageError", jpeg |-> NoImage]
        ELSE IF size[1] < 1 \/ size[2] < 1
        THEN [ok |-> FALSE, exc |-> "ValueError", jpeg |-> NoImage]
        ELSE [ok |-> TRUE, exc |-> "",
              jpeg |-> [src |-> bytes, w |-> size[1], h |-> size[2]]]

ToDataUrl(jpeg) == [prefix |-> "data:image/jpeg;base64,", b64 |-> jpeg]
NoUrl == ToDataUrl(NoImage)

(***************************************************************************)
(* suggest_skin_tone: the request content.                                 *)
(***************************************************************************)
TextItem == [type |-> "input_text", image_url |-> NoUrl]
ImageItem(jpeg) == [type |-> "input_image", image_url |-> ToDataUrl(jpeg)]

\* BuildContent as it would be with the selfie appended before the reference
BuildContentSelfieFirst(selfie_jpeg, has_ref, ref_jpeg) ==
    IF has_ref
    THEN << TextItem, ImageItem(selfie_jpeg), ImageItem(ref_jpeg) >>
    ELSE << TextItem, ImageItem(selfie_jpeg) >>

BuildContent(selfie_jpeg, has_ref, ref_jpeg) ==
    IF has_ref
    THEN << TextItem, ImageItem(ref_jpeg), ImageItem(selfie_jpeg) >>
    ELSE << TextItem, ImageItem(selfie_jpeg) >>

(***************************************************************************)
(* suggest_skin_tone: one execution of the function body.                  *)
(***************************************************************************)
Raise(exc, net, request) ==
    [kind |-> "raise", exc |-> exc, value |-> JsonNull, net |-> net, request |-> request]
Return(value, net, request) ==
    [kind |-> "return", exc |-> "", value |-> value, net |-> net, request |-> request]

\* json.loads(resp.output_text)
JsonLoads(text, request) ==
    IF text.valid THEN Return(text.value, 1, request)
    ELSE Raise("JSONDecodeError", 1, request)

\* client.responses.create(...) followed by json.loads
CallService(request, resp) ==
    IF resp.status = "error" THEN Raise("APIError", 1, request)
    ELSE JsonLoads(resp.output_text, request)

\* _preprocess_to_jpeg_bytes(b) with the default max_side, for every input used
Jpeg[b \in Selfies \cup Refs] == Preprocess(b, DefaultMaxSide)

SuggestBody(selfie, ref, secrets, env, resp) ==
    IF ~ClientOk(secrets, env) THEN Raise("RuntimeError", 0, << >>)
    ELSE IF ~Jpeg[selfie].ok THEN Raise(Jpeg[selfie].exc, 0, << >>)
    ELSE IF Truthy(ref) /\ ~Jpeg[ref].ok THEN Raise(Jpeg[ref].exc, 0, << >>)
    ELSE CallService(BuildContent(Jpeg[selfie].jpeg, Truthy(ref), Jpeg[ref].jpeg), resp)

(***************************************************************************)
(* st.cache_data around suggest_skin_tone: the cache maps the arguments    *)
(* of a call to the value it returned; a call that raises stores nothing.  *)
(***************************************************************************)
CacheKey(selfie, ref) == << selfie, ref >>

\* CacheStore as it would be if the returned value were not kept
CacheStoreNothing(c, key, value) == c

CacheStore(c, key, value) == (key :> value) @@ c

\* the outcome of one call of the decorated function, and the cache after it
SuggestSkinTone(c, selfie, ref, secrets, env, resp) ==
    LET key == CacheKey(selfie, ref)
        run == SuggestBody(selfie, ref, secrets, env, resp)
    IN  IF key \in DOMAIN c
        THEN [hit |-> TRUE, out |-> Return(c[key], 0, << >>), cache |-> c]
        ELSE [hit |-> FALSE, out |-> run,
              cache |-> IF run.kind = "return"
                        THEN CacheStore(c, key, run.value) ELSE c]

(***************************************************************************)
(* The button handler: what one script run renders.                        *)
(***************************************************************************)
NoIndex == 0 - 1

BlankUi ==
    [errors |-> 0, stopped |-> FALSE, json_shown |-> FALSE, success |-> FALSE,
     warning |-> FALSE, index |-> NoIndex, uncaught |-> ""]

\* SKIN_TONES.index(x), counted from 0
ListIndex(x) == (CHOOSE i \in 1..Len(SKIN_TONES) : SKIN_TONES[i] = x) - 1

\* except Exception as e: st.error(...); st.stop()
RenderFailure == [BlankUi EXCEPT !.errors = 1, !.stopped = TRUE]

\* st.json(result) and what follows it; an exception raised here is not caught
RenderResult(result) ==
    LET shown == [BlankUi EXCEPT !.json_shown = TRUE]
    IN  IF result.type # "object"
        THEN [shown EXCEPT !.uncaught = "AttributeError"]
        ELSE IF result.skin_tone \in Range(SKIN_TONES)
        THEN IF result.confidence.t = "string"
             THEN [shown EXCEPT !.uncaught = "ValueError"]
             ELSE [shown EXCEPT !.success = TRUE,
                                !.index = ListIndex(result.skin_tone)]
        ELSE [shown EXCEPT !.warning = TRUE, !.index = 0]

Render(out) ==
    IF out.kind = "raise" THEN RenderFailure ELSE RenderResult(out.value)

(***************************************************************************)
(* State.                                                                  *)
(***************************************************************************)
VARIABLES
    cache,      \* st.cache_data's entries for suggest_skin_tone
    history,    \* per key: network calls issued, those whose call returned,
                \* and the values returned so far
    lastRun,    \* the inputs, outcome and rendering of the latest script run
    norm        \* one application of the normalizer's size computation

vars == << cache, history, lastRun, norm >>

EmptyCache == [k \in {} |-> JsonNull]

NoRun ==
    [clicked |-> FALSE, selfie |-> NoneValue, ref |-> NoneValue,
     secrets |-> NoneValue, env |-> NoneValue, response |-> NoResponse,
     hit |-> FALSE, out |-> Raise("", 0, << >>), ui |-> BlankUi]

NormIdle == [w |-> 0, h |-> 0, max_side |-> 0, done |-> FALSE, size |-> << 0, 0 >>]

NetTotal == LET RECURSIVE Sum(_)
                Sum(S) == IF S = {} THEN 0
                          ELSE LET k == CHOOSE x \in S : TRUE
                               IN  history[k].net + Sum(S \ {k})
            IN  Sum(Keys)

Init ==
    /\ cache = EmptyCache
    /\ history = [k \in Keys |-> [net |-> 0, returned_net |-> 0, values |-> {}]]
    /\ lastRun = NoRun
    /\ norm = NormIdle

\* a script run in which the button is pressed (lines 159-188)
Click(selfie, ref, secrets, env, resp) ==
    \E call \in {SuggestSkinTone(cache, selfie, ref, secrets, env, resp)} :
      LET key == << selfie, ref >>
          old == history[key]
          out == call.out
      IN  /\ out.net = 1 => NetTotal < MaxNet
          /\ cache' = call.cache
          /\ history' =
               [history EXCEPT
                  ![key] = [net |-> old.net + out.net,
                            returned_net |->
                                IF out.kind = "return"
                                THEN old.returned_net + out.net
                                ELSE old.returned_net,
                            values |->
                                IF out.kind = "return"
                                THEN old.values \cup {out.value}
                                ELSE old.values]]
          /\ lastRun' =
               [clicked |-> TRUE, selfie |-> selfie, ref |-> ref,
                secrets |-> secrets, env |-> env,
                response |-> IF out.net = 1 THEN resp ELSE NoResponse,
                hit |-> call.hit, out |-> out, ui |-> Render(out)]
          /\ UNCHANGED norm

\* a script run in which the button is not pressed: nothing below line 159 runs
Rerun ==
    /\ lastRun.clicked
    /\ lastRun' = NoRun
    /\ UNCHANGED << cache, history, norm >>

\* the service answers only a request that is sent; none is sent once the
\* behaviour has used its MaxNet network calls
Answers(selfie, ref, secrets, env) ==
    IF SuggestSkinTone(cache, selfie, ref, secrets, env, NoResponse).out.net = 0
    THEN {NoResponse}
    ELSE IF NetTotal < MaxNet THEN Responses ELSE {}

Next ==
    \/ \E selfie \in Selfies, ref \in Refs, secrets \in SecretValues,
          env \in EnvValues :
            \E resp \in Answers(selfie, ref, secrets, env) :
                Click(selfie, ref, secrets, env, resp)
    \/ Rerun

Spec == Init /\ [][Next]_vars

(***************************************************************************)
(* The normalizer on its own: every size and max_side within the bounds.   *)
(***************************************************************************)
InitNorm ==
    /\ cache = EmptyCache
    /\ history = [k \in Keys |-> [net |-> 0, returned_net |-> 0, values |-> {}]]
    /\ lastRun = NoRun
    /\ \E w \in 1..MaxDim, h \in 1..MaxDim, m \in 1..MaxSideBound :
         norm = [w |-> w, h |-> h, max_side |-> m, done |-> FALSE, size |-> << 0, 0 >>]

Normalize ==
    /\ ~norm.done
    /\ norm' = [norm EXCEPT !.done = TRUE,
                            !.size = TargetSize(norm.w, norm.h, norm.max_side)]
    /\ UNCHANGED << cache, history, lastRun >>

NextNorm == Normalize

SpecNorm == InitNorm /\ [][NextNorm]_vars

(***************************************************************************)
(* Vocabulary of the properties.                                           *)
(***************************************************************************)
LastKey == << lastRun.selfie, lastRun.ref >>

\* a credential can be resolved from the secret store or the environment
Resolvable(secrets, env) == Truthy(secrets) \/ Truthy(env)

EightLabels == {"FAIR", "LIGHT", "LIGHT_MEDIUM", "MEDIUM", "MEDIUM_TAN", "TAN", "DARK", "DEEP"}

\* the latest call received a body that is not JSON or breaks the schema
NonConformingBody ==
    /\ lastRun.response.status = "ok"
    /\ \/ ~lastRun.response.output_text.valid
       \/ ~SchemaValid(lastRun.response.output_text.value)

Abs(x) == IF x < 0 THEN 0 - x ELSE x

Downsized == norm.done /\ NeedsResize(norm.w, norm.h, norm.max_side)

LongSide == Max(norm.w, norm.h)

(***************************************************************************)
(* C1.  Memoization.                                                       *)
(***************************************************************************)
\* C1 as stated: over all calls with the same selfie and reference bytes, at
\* most one network call is issued and at most one value is returned,
\* whatever the first call's outcome was.
C1_OneNetworkCallPerKey ==
    \A k \in Keys :
        history[k].net <= 1 /\ Cardinality(history[k].values) <= 1

\* C1 amended: once a call with given selfie and reference bytes has returned
\* a value, every later call with the same bytes issues no network call and
\* returns that same value; a call that raised is not memoized.
C1_ReturnedCallsAreMemoized ==
    [][\A k \in Keys :
          history[k].values # {} =>
              /\ history'[k].net = history[k].net
              /\ history'[k].values = history[k].values
              /\ (lastRun'.clicked /\ << lastRun'.selfie, lastRun'.ref >> = k) =>
                    /\ lastRun'.out.kind = "return"
                    /\ lastRun'.out.net = 0
                    /\ {lastRun'.out.value} = history[k].values]_vars

\* a second call with the same bytes has returned without a network call
C1_Witness ==
    /\ lastRun.clicked
    /\ lastRun.out.kind = "return"
    /\ lastRun.out.net = 0
    /\ history[LastKey].net = 1

(***************************************************************************)
(* C2.  Missing credential.                                                *)
(***************************************************************************)
\* C2 as stated: a call made while no credential is resolvable raises the
\* configuration error and issues no network call, in every state.
C2_NoCredentialAlwaysFails ==
    (lastRun.clicked /\ ~Resolvable(lastRun.secrets, lastRun.env)) =>
        /\ lastRun.out.kind = "raise"
        /\ lastRun.out.exc = "RuntimeError"
        /\ lastRun.out.net = 0

\* C2 amended: a call made while no credential is resolvable issues no
\* network call; it raises the configuration error unless an earlier call with
\* the same bytes returned a value, and then it returns that value.
C2_NoCredentialNoNetwork ==
    (lastRun.clicked /\ ~Resolvable(lastRun.secrets, lastRun.env)) =>
        /\ lastRun.out.net = 0
        /\ \/ lastRun.out.kind = "raise" /\ lastRun.out.exc = "RuntimeError"
           \/ /\ lastRun.out.kind = "return"
              /\ history[LastKey].returned_net = 1
              /\ history[LastKey].values = {lastRun.out.value}

\* a call without a credential, with inputs that would otherwise reach the service
C2_Witness ==
    /\ lastRun.clicked
    /\ ~Resolvable(lastRun.secrets, lastRun.env)
    /\ lastRun.out.exc = "RuntimeError"
    /\ lastRun.selfie = "photo"
    /\ cache # EmptyCache

(***************************************************************************)
(* C3.  Returned values conform to the label set and confidence range.     *)
(***************************************************************************)
\* C3: every value suggest_skin_tone returns has a skin_tone among the eight
\* labels or "unknown" and a confidence within [0, 1].
C3_ResultWithinSchema ==
    (lastRun.clicked /\ lastRun.out.kind = "return") =>
        /\ lastRun.out.value.skin_tone \in EightLabels \cup {"unknown"}
        /\ lastRun.out.value.confidence.t = "number"
        /\ lastRun.out.value.confidence.v >= 0
        /\ lastRun.out.value.confidence.v <= 100

(***************************************************************************)
(* C4.  A non-conforming body is a failure.                                *)
(***************************************************************************)
\* C4: a response body that is not JSON or breaks the schema makes the call
\* raise; it is not returned and not rendered as a defaulted suggestion.
C4_NonConformingBodyRaises ==
    (lastRun.clicked /\ NonConformingBody) =>
        /\ lastRun.out.kind = "raise"
        /\ ~lastRun.ui.json_shown
        /\ ~lastRun.ui.warning

(***************************************************************************)
(* C5.  Errors at the UI boundary.                                         *)
(***************************************************************************)
\* C5: every error of a classification attempt (a raised exception or a
\* non-conforming response) ends in exactly one error message and a stopped
\* run with nothing else rendered; no exception escapes the handler and no run
\* shows both an error and a result.
C5_ErrorsEndInOneMessage ==
    lastRun.clicked =>
        /\ lastRun.ui.uncaught = ""
        /\ ~(lastRun.ui.errors > 0 /\ lastRun.ui.json_shown)
        /\ (lastRun.out.kind = "raise" \/ NonConformingBody) =>
              /\ lastRun.ui.errors = 1
              /\ lastRun.ui.stopped
              /\ ~lastRun.ui.json_shown
              /\ ~lastRun.ui.success
              /\ ~lastRun.ui.warning
              /\ lastRun.ui.index = NoIndex

(***************************************************************************)
(* C6.  The normalizer never exceeds max_side and never enlarges.          *)
(***************************************************************************)
\* C6: the size computed for a w x h image has its longer side at most
\* max_side, and equals (w, h) when max(w, h) <= max_side.
C6_BoundedAndNeverEnlarged ==
    norm.done =>
        /\ Max(norm.size[1], norm.size[2]) <= norm.max_side
        /\ LongSide <= norm.max_side => norm.size = << norm.w, norm.h >>

\* an image has been downsized to a size with two positive sides
C6_Witness ==
    /\ Downsized
    /\ norm.size[1] >= 1 /\ norm.size[2] >= 1
    /\ norm.size[1] < norm.w /\ norm.size[2] < norm.h

(***************************************************************************)
(* C7.  The order of the request content.                                  *)
(***************************************************************************)
\* C7: every request sent holds the instruction text first, then the
\* reference image exactly when non-empty reference bytes were given, then the
\* selfie image last; it never holds more than two images.
C7_ContentOrder ==
    (lastRun.clicked /\ lastRun.out.net = 1) =>
        LET req == lastRun.out.request
            n   == Len(req)
        IN  /\ n = (IF Truthy(lastRun.ref) THEN 3 ELSE 2)
            /\ req[1].type = "input_text"
            /\ \A i \in 2..n : req[i].type = "input_image"
            /\ req[n].image_url.b64.src = lastRun.selfie
            /\ Truthy(lastRun.ref) => req[2].image_url.b64.src = lastRun.ref

\* a request carrying a reference image has been sent
C7_Witness ==
    /\ lastRun.clicked
    /\ lastRun.out.net = 1
    /\ lastRun.ref = "swatches"

(***************************************************************************)
(* C8.  The selector's pre-seeded index and the highlight.                 *)
(***************************************************************************)
\* C8: after a call returns a result, exactly one of success and warning is
\* shown and the selector holds a valid index: the label's index with success
\* when the label is one of the eight, index 0 with a warning otherwise.
C8_SelectorSeeded ==
    (lastRun.clicked /\ lastRun.out.kind = "return") =>
        LET tone == lastRun.out.value.skin_tone
        IN  /\ lastRun.ui.success # lastRun.ui.warning
            /\ lastRun.ui.index \in 0..7
            /\ tone \in EightLabels =>
                  /\ lastRun.ui.success
                  /\ SKIN_TONES[lastRun.ui.index + 1] = tone
            /\ tone \notin EightLabels =>
                  /\ lastRun.ui.warning
                  /\ lastRun.ui.index = 0

(***************************************************************************)
(* C9.  Rounding of the downsized dimensions.                              *)
(***************************************************************************)
\* C9 as stated: when the image is downsized, each output dimension is the
\* input dimension times max_side / max(w, h), rounded to the nearest integer.
C9_RoundedToNearest ==
    Downsized =>
        /\ 2 * Abs(norm.size[1] * LongSide - norm.w * norm.max_side) <= LongSide
        /\ 2 * Abs(norm.size[2] * LongSide - norm.h * norm.max_side) <= LongSide

\* C9 amended: when the image is downsized, each output dimension is the
\* float product of the input dimension and the scale factor truncated
\* toward zero: it lies in [d*max_side/max(w,h) - 1, d*max_side/max(w,h)], and
\* is below the exact product by a whole 1 only when that product is an integer.
C9_Truncated ==
    Downsized =>
        /\ norm.size[1] * LongSide <= norm.w * norm.max_side
        /\ norm.w * norm.max_side <= (norm.size[1] + 1) * LongSide
        /\ norm.size[2] * LongSide <= norm.h * norm.max_side
        /\ norm.h * norm.max_side <= (norm.size[2] + 1) * LongSide

\* a downsized dimension whose fraction above one half has been cut off
C9_Witness ==
    /\ Downsized
    /\ 2 * (norm.h * norm.max_side - norm.size[2] * LongSide) > LongSide
    /\ norm.h * norm.max_side < (norm.size[2] + 1) * LongSide

(***************************************************************************)
(* C10.  The target size has no zero side.                                 *)
(***************************************************************************)
\* C10: the target size computed for any w, h >= 1 and max_side >= 1 has
\* both dimensions >= 1.
C10_TargetSizePositive ==
    norm.done => norm.size[1] >= 1 /\ norm.size[2] >= 1

====
